---- MODULE Spec2Model ----
(***************************************************************************)
(* Request handlers of the social-network backend (proof/views.py,         *)
(* home/views.py) as a state machine over the persistent store.            *)
(*                                                                         *)
(* The store is the set of tables the handlers touch: Poste, Comment,      *)
(* Vote, Relation, Directs, and the profile fields of User.  The rows of   *)
(* the User table are fixed (registration is done by the external auth     *)
(* collaborator).  Every handler is one atomic action, except in the       *)
(* specification RaceSpec, where Follow and PostLikeView run as two steps  *)
(* (existence check, then write) so that two requests can interleave.      *)
(***************************************************************************)
EXTENDS Integers, Sequences, FiniteSets, Bags, TLC

VARIABLES
    posts,        \* Poste rows: id -> [user, body, slug]
    nextPost,     \* next Poste id (ids are never reused)
    comments,     \* Comment rows: id -> [post, user, reply, is_reply]
    nextComment,  \* next Comment id
    votes,        \* Vote rows, a bag of <<post, user>>
    rels,         \* Relation rows, a bag of <<from_user, to_user>>
    directs,      \* Directs rows: id -> [from_user, to_user, body]
    nextDirect,   \* next Directs id
    last,         \* the last request handled and its response
    run,          \* history: the current streak of toggle-like calls
    inflight,     \* RaceSpec: requests between their check and their write
    profiles      \* User rows: id -> [bio]; ids and usernames are fixed

(* The tables first, then the request's op before the whole response:      *)
(* the payload fields of `last` are of one kind per op                     *)
vars == <<posts, nextPost, comments, nextComment, votes, rels, directs,
          nextDirect, profiles, run, inflight, last.op, last>>

----------------------------------------------------------------------------
(* Bounds of the model *)

MaxPosts == 2
MaxComments == 3
MaxDirects == 1
MaxToggles == 3
MaxSlugPosts == 1
MaxLikedPosts == 1
MaxSlugComments == 1

(* The fixed User table (ids), the anonymous requester, an id no row has *)
Users == {1, 2, 3}
Anon == 0
Requesters == Users \cup {Anon}
NoUser == Cardinality(Users) + 1

(* HTTP statuses *)
OK == 200
CREATED == 201
BAD_REQUEST == 400
UNAUTHORIZED == 401
FORBIDDEN == 403
NOT_FOUND == 404
SERVER_ERROR == 500

----------------------------------------------------------------------------
(* Text: a string is a sequence of one-character strings *)

WordChars == {"a", "b", "c", "d", "e", "h", "k", "l", "o", "r", "w", "_"}
Spaces == {" "}
Hyphens == {"-"}

Lower(c) == IF c = "H" THEN "h" ELSE IF c = "W" THEN "w" ELSE c

LowerAll(s) == [i \in 1..Len(s) |-> Lower(s[i])]

Take(s, n) == SubSeq(s, 1, IF Len(s) < n THEN Len(s) ELSE n)

(* re.sub(r"[^\w\s-]", "", value): drop what is no word char, space, hyphen *)
KeepSlugChars(s) ==
    SelectSeq(s, LAMBDA c : c \in WordChars \cup Spaces \cup Hyphens)

(* re.sub(r"[-\s]+", "-", value): every run of spaces/hyphens becomes one "-" *)
RECURSIVE CollapseRuns(_)
CollapseRuns(s) ==
    IF s = <<>> THEN <<>>
    ELSE IF Head(s) \in Spaces \cup Hyphens
         THEN IF Len(s) > 1 /\ s[2] \in Spaces \cup Hyphens
              THEN CollapseRuns(Tail(s))
              ELSE <<"-">> \o CollapseRuns(Tail(s))
         ELSE <<Head(s)>> \o CollapseRuns(Tail(s))

(* str.strip("-_") *)
RECURSIVE StripLeft(_)
StripLeft(s) ==
    IF s # <<>> /\ Head(s) \in {"-", "_"} THEN StripLeft(Tail(s)) ELSE s

RECURSIVE StripRight(_)
StripRight(s) ==
    IF s # <<>> /\ s[Len(s)] \in {"-", "_"}
    THEN StripRight(SubSeq(s, 1, Len(s) - 1)) ELSE s

(* django.utils.text.slugify (allow_unicode=False) on ASCII text *)
Slugify(s) == StripRight(StripLeft(CollapseRuns(KeepSlugChars(LowerAll(s)))))

SlugLen == 30

(* slugify(serializer.validated_data["body"][:30]) *)
SlugOf(body) == Slugify(Take(body, SlugLen))

(* Request payloads.  Absent stands for a payload without a "body" field,  *)
(* Blank for an empty one.                                                 *)
Absent == <<"<absent>">>
Blank == <<>>
HelloWorld == <<"H", "e", "l", "l", "o", " ", "w", "o", "r", "l", "d">>
Plain == <<"o", "k">>
Long == [i \in 1..32 |-> IF i = 30 THEN " " ELSE IF i > 30 THEN "b" ELSE "a"]
Bodies == {HelloWorld, Plain, Long}

(* Serializer validation of a body field (proof/serializers.py): a body    *)
(* must be present and not blank; with partial=True it may be absent.      *)
ValidBody(b) == b # Absent /\ b # Blank
ValidPartialBody(b) == b # Blank

----------------------------------------------------------------------------
(* The store *)

Count(bag, row) == CopiesIn(row, bag)

(* Model.objects.create(...) on a table with a uniqueness constraint *)
CreateRowUnique(bag, row) == IF BagIn(row, bag) THEN bag ELSE bag (+) SetToBag({row})
(* Model.objects.create(...): one more row, whatever rows exist; the Vote  *)
(* and Relation tables declare no uniqueness constraint                    *)
CreateRow(bag, row) == bag (+) SetToBag({row})

(* QuerySet.delete(): every row matching the filter goes *)
DeleteRows(bag, rows) == [r \in DOMAIN bag \ rows |-> bag[r]]

Drop(f, ids) == [i \in DOMAIN f \ ids |-> f[i]]

(* Comments deleted together with the comments in S: their replies,        *)
(* transitively (reply = ForeignKey("self", on_delete=CASCADE))            *)
RECURSIVE CascadeComments(_)
CascadeComments(S) ==
    LET more == {c \in DOMAIN comments : comments[c].reply \in S}
    IN IF more \subseteq S THEN S ELSE CascadeComments(S \cup more)

(* Rows deleted together with post p: its comments (and their replies)     *)
(* and its votes                                                           *)
CommentsOfPost(p) == CascadeComments({c \in DOMAIN comments : comments[c].post = p})
VotesOfPost(p) == {r \in DOMAIN votes : r[1] = p}

(* The tables: User, Relation, Poste, Comment, Vote, Directs *)
store == <<profiles, rels, posts, comments, votes, directs>>

----------------------------------------------------------------------------
(* Responses and history *)

Resp(op, u, a, b, st) ==
    [op |-> op, user |-> u, a |-> a, b |-> b, status |-> st, data |-> {}]

NoRun == [post |-> 0, user |-> 0, resps |-> <<>>]

Idle == [op |-> "none", user |-> 0, a |-> 0, pc |-> "idle", status |-> 0, raced |-> FALSE]
Slots == {1, 2}

Init ==
    /\ posts = <<>>
    /\ nextPost = 1
    /\ comments = <<>>
    /\ nextComment = 1
    /\ votes = EmptyBag
    /\ rels = EmptyBag
    /\ directs = <<>>
    /\ nextDirect = 1
    /\ last = Resp("init", Anon, 0, 0, 0)
    /\ run = NoRun
    /\ inflight = [i \in Slots |-> Idle]
    /\ profiles = [u \in Users |-> [bio |-> Blank]]

PostIds == 1..(MaxPosts + 1)
CommentIds == 1..(MaxComments + 1)
DirectIds == 1..(MaxDirects + 1)
UserIds == Users \cup {NoUser}
LikedPostIds == 1..(MaxLikedPosts + 1)
SlugPostIds == 1..(MaxSlugPosts + 1)
SlugCommentIds == 1..(MaxSlugComments + 1)

----------------------------------------------------------------------------
(* Posts *)

(* PostCreateView.post *)
PostCreate(u, b) ==
    /\ IF u = Anon
       THEN /\ last' = Resp("post_create", u, 0, b, UNAUTHORIZED)
            /\ UNCHANGED <<posts, nextPost>>
       ELSE IF ~ValidBody(b)
       THEN /\ last' = Resp("post_create", u, 0, b, BAD_REQUEST)
            /\ UNCHANGED <<posts, nextPost>>
       ELSE /\ nextPost <= MaxPosts
            /\ posts' = posts @@ (nextPost :> [user |-> u, body |-> b, slug |-> SlugOf(b)])
            /\ nextPost' = nextPost + 1
            /\ last' = Resp("post_create", u, nextPost, b, CREATED)
    /\ run' = run
    /\ UNCHANGED <<comments, nextComment, votes, rels, directs, nextDirect, inflight, profiles>>

(* PostUpdateView.put with the slug left as it was *)
PostUpdateKeepSlug(u, p, b) ==
    /\ IF u = Anon
       THEN /\ last' = Resp("post_update", u, p, b, UNAUTHORIZED)
            /\ UNCHANGED posts
       ELSE IF p \notin DOMAIN posts
       THEN /\ last' = Resp("post_update", u, p, b, NOT_FOUND)
            /\ UNCHANGED posts
       ELSE IF u # posts[p].user
       THEN /\ last' = Resp("post_update", u, p, b, FORBIDDEN)
            /\ UNCHANGED posts
       ELSE IF ~ValidPartialBody(b)
       THEN /\ last' = Resp("post_update", u, p, b, BAD_REQUEST)
            /\ UNCHANGED posts
       ELSE IF b = Absent
       THEN /\ last' = Resp("post_update", u, p, b, SERVER_ERROR)
            /\ UNCHANGED posts
       ELSE /\ posts' = [posts EXCEPT ![p].body = b]
            /\ last' = Resp("post_update", u, p, b, OK)
    /\ UNCHANGED <<nextPost, comments, nextComment, votes, rels, directs,
                   nextDirect, run, inflight, profiles>>

(* PostUpdateView.put with the ownership check left out *)
PostUpdateAnyUser(u, p, b) ==
    /\ IF u = Anon
       THEN /\ last' = Resp("post_update", u, p, b, UNAUTHORIZED)
            /\ UNCHANGED posts
       ELSE IF p \notin DOMAIN posts
       THEN /\ last' = Resp("post_update", u, p, b, NOT_FOUND)
            /\ UNCHANGED posts
       ELSE IF ~ValidPartialBody(b)
       THEN /\ last' = Resp("post_update", u, p, b, BAD_REQUEST)
            /\ UNCHANGED posts
       ELSE IF b = Absent
       THEN /\ last' = Resp("post_update", u, p, b, SERVER_ERROR)
            /\ UNCHANGED posts
       ELSE /\ posts' = [posts EXCEPT ![p].body = b, ![p].slug = SlugOf(b)]
            /\ last' = Resp("post_update", u, p, b, OK)
    /\ UNCHANGED <<nextPost, comments, nextComment, votes, rels, directs,
                   nextDirect, run, inflight, profiles>>

(* PostUpdateView.put.  A partial payload without "body" passes is_valid() *)
(* and validated_data["body"] raises KeyError: the request ends in a 500   *)
(* and nothing is saved.                                                   *)
PostUpdate(u, p, b) ==
    /\ IF u = Anon
       THEN /\ last' = Resp("post_update", u, p, b, UNAUTHORIZED)
            /\ UNCHANGED posts
       ELSE IF p \notin DOMAIN posts
       THEN /\ last' = Resp("post_update", u, p, b, NOT_FOUND)
            /\ UNCHANGED posts
       ELSE IF u # posts[p].user
       THEN /\ last' = Resp("post_update", u, p, b, FORBIDDEN)
            /\ UNCHANGED posts
       ELSE IF ~ValidPartialBody(b)
       THEN /\ last' = Resp("post_update", u, p, b, BAD_REQUEST)
            /\ UNCHANGED posts
       ELSE IF b = Absent
       THEN /\ last' = Resp("post_update", u, p, b, SERVER_ERROR)
            /\ UNCHANGED posts
       ELSE /\ posts' = [posts EXCEPT ![p].body = b, ![p].slug = SlugOf(b)]
            /\ last' = Resp("post_update", u, p, b, OK)
    /\ UNCHANGED <<nextPost, comments, nextComment, votes, rels, directs,
                   nextDirect, run, inflight, profiles>>

(* PostDeleteView.delete; post.delete() takes the post's comments and      *)
(* votes with it                                                           *)
PostDelete(u, p) ==
    /\ IF u = Anon
       THEN /\ last' = Resp("post_delete", u, p, 0, UNAUTHORIZED)
            /\ UNCHANGED <<posts, comments, votes, run>>
       ELSE IF p \notin DOMAIN posts
       THEN /\ last' = Resp("post_delete", u, p, 0, NOT_FOUND)
            /\ UNCHANGED <<posts, comments, votes, run>>
       ELSE IF posts[p].user # u
       THEN /\ last' = Resp("post_delete", u, p, 0, FORBIDDEN)
            /\ UNCHANGED <<posts, comments, votes, run>>
       ELSE /\ posts' = Drop(posts, {p})
            /\ comments' = Drop(comments, CommentsOfPost(p))
            /\ votes' = DeleteRows(votes, VotesOfPost(p))
            /\ run' = IF run.post = p THEN NoRun ELSE run
            /\ last' = Resp("post_delete", u, p, 0, OK)
    /\ UNCHANGED <<nextPost, nextComment, rels, directs, nextDirect, inflight, profiles>>

(* get_object_or_404(Poste, id=post_id, slug=post_slug), by id alone *)
PostByIdOnly(p, sl) == p \in DOMAIN posts
(* get_object_or_404(Poste, id=post_id, slug=post_slug) finds a row *)
PostByIdSlug(p, sl) == p \in DOMAIN posts /\ posts[p].slug = sl

(* PostDetailView.get: the (id, slug) pair is the lookup key; no           *)
(* authentication is required                                              *)
PostDetail(u, p, sl) ==
    /\ IF PostByIdSlug(p, sl)
       THEN last' = [Resp("post_detail", u, p, sl, OK) EXCEPT !.data =
                        {[post |-> p,
                          comments |-> {c \in DOMAIN comments :
                                          comments[c].post = p /\ ~comments[c].is_reply},
                          liked |-> u # Anon /\ Count(votes, <<p, u>>) > 0,
                          likes_count |-> BagCardinality(DeleteRows(votes, DOMAIN votes \ VotesOfPost(p)))]}]
       ELSE last' = Resp("post_detail", u, p, sl, NOT_FOUND)
    /\ UNCHANGED <<posts, nextPost, comments, nextComment, votes, rels, directs,
                   nextDirect, run, inflight, profiles>>

----------------------------------------------------------------------------
(* Comments.  A comment's body plays no part in any handler's decisions    *)
(* once validated, so the rows keep post, user, reply and is_reply.        *)

(* Field defaults of a Comment row (proof/models.py): no parent, no flag   *)
NewComment(p, u) == [post |-> p, user |-> u, reply |-> 0, is_reply |-> FALSE]

(* serializer.save(user=, post=, reply=comment, is_reply=True), with the   *)
(* flag forgotten                                                          *)
NewReplyNoFlag(p, u, c) == [NewComment(p, u) EXCEPT !.reply = c]
(* serializer.save(user=request.user, post=post, reply=comment, is_reply=True) *)
NewReply(p, u, c) == [NewComment(p, u) EXCEPT !.reply = c, !.is_reply = TRUE]

(* CommentCreateView.post *)
CommentCreate(u, p, sl, b) ==
    /\ IF u = Anon
       THEN /\ last' = Resp("comment_create", u, p, sl, UNAUTHORIZED)
            /\ UNCHANGED <<comments, nextComment>>
       ELSE IF ~PostByIdSlug(p, sl)
       THEN /\ last' = Resp("comment_create", u, p, sl, NOT_FOUND)
            /\ UNCHANGED <<comments, nextComment>>
       ELSE IF ValidBody(b)
       THEN /\ nextComment <= MaxComments
            /\ comments' = comments @@ (nextComment :> NewComment(p, u))
            /\ nextComment' = nextComment + 1
            /\ last' = Resp("comment_create", u, p, sl, CREATED)
       ELSE /\ last' = Resp("comment_create", u, p, sl, BAD_REQUEST)
            /\ UNCHANGED <<comments, nextComment>>
    /\ UNCHANGED <<posts, nextPost, votes, rels, directs, nextDirect, run, inflight, profiles>>

(* CommentReplyView.post saving before it validates *)
CommentReplySaveFirst(u, p, c, b) ==
    /\ IF u = Anon
       THEN /\ last' = Resp("comment_reply", u, p, c, UNAUTHORIZED)
            /\ UNCHANGED <<comments, nextComment>>
       ELSE IF p \notin DOMAIN posts \/ c \notin DOMAIN comments
       THEN /\ last' = Resp("comment_reply", u, p, c, NOT_FOUND)
            /\ UNCHANGED <<comments, nextComment>>
       ELSE /\ nextComment <= MaxComments
            /\ comments' = comments @@ (nextComment :> NewReply(p, u, c))
            /\ nextComment' = nextComment + 1
            /\ last' = Resp("comment_reply", u, p, c,
                            IF ValidBody(b) THEN CREATED ELSE BAD_REQUEST)
    /\ UNCHANGED <<posts, nextPost, votes, rels, directs, nextDirect, run, inflight, profiles>>

(* CommentReplyView.post *)
CommentReply(u, p, c, b) ==
    /\ IF u = Anon
       THEN /\ last' = Resp("comment_reply", u, p, c, UNAUTHORIZED)
            /\ UNCHANGED <<comments, nextComment>>
       ELSE IF p \notin DOMAIN posts \/ c \notin DOMAIN comments
       THEN /\ last' = Resp("comment_reply", u, p, c, NOT_FOUND)
            /\ UNCHANGED <<comments, nextComment>>
       ELSE IF ValidBody(b)
       THEN /\ nextComment <= MaxComments
            /\ comments' = comments @@ (nextComment :> NewReply(p, u, c))
            /\ nextComment' = nextComment + 1
            /\ last' = Resp("comment_reply", u, p, c, CREATED)
       ELSE /\ last' = Resp("comment_reply", u, p, c, BAD_REQUEST)
            /\ UNCHANGED <<comments, nextComment>>
    /\ UNCHANGED <<posts, nextPost, votes, rels, directs, nextDirect, run, inflight, profiles>>

(* CommentDeleteView.delete *)
CommentDelete(u, c) ==
    /\ IF u = Anon
       THEN /\ last' = Resp("comment_delete", u, c, 0, UNAUTHORIZED)
            /\ UNCHANGED comments
       ELSE IF c \notin DOMAIN comments
       THEN /\ last' = Resp("comment_delete", u, c, 0, NOT_FOUND)
            /\ UNCHANGED comments
       ELSE IF u = comments[c].user
       THEN /\ comments' = Drop(comments, CascadeComments({c}))
            /\ last' = Resp("comment_delete", u, c, 0, OK)
       ELSE /\ last' = Resp("comment_delete", u, c, 0, FORBIDDEN)
            /\ UNCHANGED comments
    /\ UNCHANGED <<posts, nextPost, nextComment, votes, rels, directs, nextDirect,
                   run, inflight, profiles>>

----------------------------------------------------------------------------
(* Likes and follows, each handler run to completion *)

(* The streak of toggle-like calls that `run` follows, with the status of  *)
(* each call: the call by u on p extends it, or may start a new one when u *)
(* has no vote on p.  Requests that leave the votes of (p, u) alone leave  *)
(* the streak alone.                                                       *)
RunAfterToggle(u, p, had, st) ==
    IF run.post = p /\ run.user = u
    THEN {[run EXCEPT !.resps = Append(run.resps, st)]}
    ELSE IF had THEN {run}
    ELSE IF run = NoRun THEN {[post |-> p, user |-> u, resps |-> <<st>>]}
    ELSE {run, [post |-> p, user |-> u, resps |-> <<st>>]}

(* the same query with the post's author for the requester *)
LikeExistsOfAuthor(u, p) == Count(votes, <<p, posts[p].user>>) > 0
(* Vote.objects.filter(post=post, user=request.user).exists() *)
LikeExists(u, p) == Count(votes, <<p, u>>) > 0

(* PostLikeView.post that never unlikes *)
PostLikeAlwaysCreate(u, p) ==
    /\ IF u = Anon
       THEN /\ last' = Resp("like", u, p, 0, UNAUTHORIZED)
            /\ UNCHANGED <<votes, run>>
       ELSE IF p \notin DOMAIN posts
       THEN /\ last' = Resp("like", u, p, 0, NOT_FOUND)
            /\ UNCHANGED <<votes, run>>
       ELSE /\ run.post = p /\ run.user = u => Len(run.resps) < MaxToggles
            /\ votes' = CreateRow(votes, <<p, u>>)
            /\ last' = Resp("like", u, p, 0, CREATED)
            /\ run' \in RunAfterToggle(u, p, LikeExists(u, p), CREATED)
    /\ UNCHANGED <<posts, nextPost, comments, nextComment, rels, directs,
                   nextDirect, inflight, profiles>>

(* PostLikeView.post *)
PostLike(u, p) ==
    /\ IF u = Anon
       THEN /\ last' = Resp("like", u, p, 0, UNAUTHORIZED)
            /\ UNCHANGED <<votes, run>>
       ELSE IF p \notin DOMAIN posts
       THEN /\ last' = Resp("like", u, p, 0, NOT_FOUND)
            /\ UNCHANGED <<votes, run>>
       ELSE /\ run.post = p /\ run.user = u => Len(run.resps) < MaxToggles
            /\ IF LikeExists(u, p)
               THEN /\ votes' = DeleteRows(votes, {<<p, u>>})
                    /\ last' = Resp("like", u, p, 0, OK)
               ELSE /\ votes' = CreateRow(votes, <<p, u>>)
                    /\ last' = Resp("like", u, p, 0, CREATED)
            /\ run' \in RunAfterToggle(u, p, LikeExists(u, p),
                                       IF LikeExists(u, p) THEN OK ELSE CREATED)
    /\ UNCHANGED <<posts, nextPost, comments, nextComment, rels, directs,
                   nextDirect, inflight, profiles>>

(* Relation.objects.filter(from_user=request.user, to_user=user).exists() *)
RelationExists(u, t) == Count(rels, <<u, t>>) > 0

(* Follow.post without the existence check *)
FollowNoCheck(u, t) ==
    /\ IF u = Anon
       THEN /\ last' = Resp("follow", u, t, 0, UNAUTHORIZED)
            /\ UNCHANGED rels
       ELSE IF t \notin Users
       THEN /\ last' = Resp("follow", u, t, 0, NOT_FOUND)
            /\ UNCHANGED rels
       ELSE /\ rels' = CreateRow(rels, <<u, t>>)
            /\ last' = Resp("follow", u, t, 0, CREATED)
    /\ UNCHANGED <<posts, nextPost, comments, nextComment, votes, directs,
                   nextDirect, run, inflight, profiles>>

(* Follow.post refusing a target that is the requester *)
FollowNotSelf(u, t) ==
    /\ IF u = Anon
       THEN /\ last' = Resp("follow", u, t, 0, UNAUTHORIZED)
            /\ UNCHANGED rels
       ELSE IF t \notin Users
       THEN /\ last' = Resp("follow", u, t, 0, NOT_FOUND)
            /\ UNCHANGED rels
       ELSE IF RelationExists(u, t) \/ t = u
       THEN /\ last' = Resp("follow", u, t, 0, FORBIDDEN)
            /\ UNCHANGED rels
       ELSE /\ rels' = CreateRow(rels, <<u, t>>)
            /\ last' = Resp("follow", u, t, 0, CREATED)
    /\ UNCHANGED <<posts, nextPost, comments, nextComment, votes, directs,
                   nextDirect, run, inflight, profiles>>

(* Follow.post *)
Follow(u, t) ==
    /\ IF u = Anon
       THEN /\ last' = Resp("follow", u, t, 0, UNAUTHORIZED)
            /\ UNCHANGED rels
       ELSE IF t \notin Users
       THEN /\ last' = Resp("follow", u, t, 0, NOT_FOUND)
            /\ UNCHANGED rels
       ELSE IF RelationExists(u, t)
       THEN /\ last' = Resp("follow", u, t, 0, FORBIDDEN)
            /\ UNCHANGED rels
       ELSE /\ rels' = CreateRow(rels, <<u, t>>)
            /\ last' = Resp("follow", u, t, 0, CREATED)
    /\ UNCHANGED <<posts, nextPost, comments, nextComment, votes, directs,
                   nextDirect, run, inflight, profiles>>

(* UnFollow.post *)
UnFollow(u, t) ==
    /\ IF u = Anon
       THEN /\ last' = Resp("unfollow", u, t, 0, UNAUTHORIZED)
            /\ UNCHANGED rels
       ELSE IF t \notin Users
       THEN /\ last' = Resp("unfollow", u, t, 0, NOT_FOUND)
            /\ UNCHANGED rels
       ELSE IF ~RelationExists(u, t)
       THEN /\ last' = Resp("unfollow", u, t, 0, FORBIDDEN)
            /\ UNCHANGED rels
       ELSE /\ rels' = DeleteRows(rels, {<<u, t>>})
            /\ last' = Resp("unfollow", u, t, 0, OK)
    /\ UNCHANGED <<posts, nextPost, comments, nextComment, votes, directs,
                   nextDirect, run, inflight, profiles>>

----------------------------------------------------------------------------
(* Direct messages *)

(* Usernames are text: "u1", "u2", "u3"; no user is named "u4" *)
Digits == <<"1", "2", "3", "4">>
UsernameOf == [u \in Users |-> <<"u", Digits[u]>>]
NoName == <<"u", Digits[NoUser]>>
Usernames == {UsernameOf[u] : u \in Users} \cup {NoName}
UserByName(n) == {u \in Users : UsernameOf[u] = n}

(* request.data of a message: a body, and sender and recipient fields that *)
(* a client may add (0: not given)                                         *)
Message(b) == [body |-> b, from_user |-> 0, to_user |-> 0]
Messages ==
    {[body |-> b, from_user |-> f, to_user |-> t] :
        b \in {Plain, Absent}, f \in {0, 3}, t \in {0, 3}}

(* serializer.save(from_user=..., to_user=...): the keyword arguments      *)
(* override what the validated data holds under the same names             *)
SaveDirect(d, u, t) == [from_user |-> u, to_user |-> t, body |-> d.body]

(* SendDirectView.post *)
SendDirect(u, n, d) ==
    /\ IF u = Anon
       THEN /\ last' = Resp("direct_send", u, n, d, UNAUTHORIZED)
            /\ UNCHANGED <<directs, nextDirect>>
       ELSE IF ~ValidBody(d.body)
       THEN /\ last' = Resp("direct_send", u, n, d, BAD_REQUEST)
            /\ UNCHANGED <<directs, nextDirect>>
       ELSE IF UserByName(n) = {}
       THEN /\ last' = Resp("direct_send", u, n, d, NOT_FOUND)
            /\ UNCHANGED <<directs, nextDirect>>
       ELSE /\ nextDirect <= MaxDirects
            /\ \E t \in UserByName(n) :
                 directs' = directs @@ (nextDirect :> SaveDirect(d, u, t))
            /\ nextDirect' = nextDirect + 1
            /\ last' = Resp("direct_send", u, n, d, CREATED)
    /\ UNCHANGED <<posts, nextPost, comments, nextComment, votes, rels, run, inflight, profiles>>

(* The participant test of DirectView.get with "or" for "and" *)
NotParticipantOr(u, d) == u # directs[d].to_user \/ u # directs[d].from_user
(* request.user.id != direct.to_user.id and request.user.id != direct.from_user.id *)
NotParticipant(u, d) == u # directs[d].to_user /\ u # directs[d].from_user

(* DirectView.get: the view names no permission class, so an anonymous     *)
(* requester (whose id is None) reaches the handler                        *)
DirectView(u, d) ==
    /\ IF d \notin DOMAIN directs
       THEN last' = Resp("direct_get", u, d, 0, NOT_FOUND)
       ELSE IF NotParticipant(u, d)
       THEN last' = Resp("direct_get", u, d, 0, FORBIDDEN)
       ELSE last' = [Resp("direct_get", u, d, 0, OK) EXCEPT !.data = {directs[d]}]
    /\ UNCHANGED <<posts, nextPost, comments, nextComment, votes, rels, directs,
                   nextDirect, run, inflight, profiles>>

----------------------------------------------------------------------------
(* Users and profiles *)

(* CurrentUserView.get *)
CurrentUser(u) ==
    /\ IF u = Anon
       THEN last' = Resp("me", u, 0, 0, UNAUTHORIZED)
       ELSE last' = [Resp("me", u, 0, 0, OK) EXCEPT !.data = {profiles[u]}]
    /\ UNCHANGED <<posts, nextPost, comments, nextComment, votes, rels, directs,
                   nextDirect, run, inflight, profiles>>

PostsOf(t) == {p \in DOMAIN posts : posts[p].user = t}

(* ListPostsView.get: User.objects.get raises DoesNotExist when no user    *)
(* has the username; nothing catches it, so the response is a 500          *)
ListPosts(u, n) ==
    /\ IF UserByName(n) = {}
       THEN last' = Resp("user_posts", u, n, 0, SERVER_ERROR)
       ELSE \E t \in UserByName(n) :
              last' = [Resp("user_posts", u, n, 0, OK) EXCEPT !.data = PostsOf(t)]
    /\ UNCHANGED <<posts, nextPost, comments, nextComment, votes, rels, directs,
                   nextDirect, run, inflight, profiles>>

(* UserProfileView.get *)
UserProfile(u, n) ==
    /\ IF UserByName(n) = {}
       THEN last' = Resp("user_profile", u, n, 0, NOT_FOUND)
       ELSE \E t \in UserByName(n) :
              last' = [Resp("user_profile", u, n, 0, OK) EXCEPT !.data =
                         {[user |-> profiles[t],
                           posts |-> PostsOf(t),
                           is_followed |-> u # Anon /\ RelationExists(u, t),
                           followers |-> BagCardinality(
                               DeleteRows(rels, {r \in DOMAIN rels : r[2] # t}))]}]
    /\ UNCHANGED <<posts, nextPost, comments, nextComment, votes, rels, directs,
                   nextDirect, run, inflight, profiles>>

(* UserRelations.get *)
UserRelations(u, n) ==
    /\ IF UserByName(n) = {}
       THEN last' = Resp("user_relations", u, n, 0, NOT_FOUND)
       ELSE \E t \in UserByName(n) :
              last' = [Resp("user_relations", u, n, 0, OK) EXCEPT !.data =
                         {[user |-> profiles[t],
                           followers |-> {r[1] : r \in {x \in DOMAIN rels : x[2] = t}},
                           following |-> {r[2] : r \in {x \in DOMAIN rels : x[1] = t}}]}]
    /\ UNCHANGED <<posts, nextPost, comments, nextComment, votes, rels, directs,
                   nextDirect, run, inflight, profiles>>

(* Profile data of a request: a bio, or a bio longer than the field allows *)
BioMax == 300
TooLong == [i \in 1..(BioMax + 1) |-> "a"]
ProfileData == {[bio |-> Plain], [bio |-> HelloWorld], [bio |-> TooLong]}

(* UserUpdateSerializer.is_valid() (proof/serializers.py): bio within      *)
(* max_length                                                              *)
ValidProfile(d) == Len(d.bio) <= BioMax

(* EditProfileView.put with the identity test left out *)
EditProfileAnyUser(u, n, d) ==
    /\ IF UserByName(n) = {}
       THEN /\ last' = Resp("profile_edit", u, n, d, NOT_FOUND)
            /\ UNCHANGED profiles
       ELSE \E t \in UserByName(n) :
              IF ValidProfile(d)
              THEN /\ profiles' = [profiles EXCEPT ![t] = d]
                   /\ last' = Resp("profile_edit", u, n, d, OK)
              ELSE /\ last' = Resp("profile_edit", u, n, d, BAD_REQUEST)
                   /\ UNCHANGED profiles
    /\ UNCHANGED <<posts, nextPost, comments, nextComment, votes, rels, directs,
                   nextDirect, run, inflight>>

(* EditProfileView.put: the view names no permission class; an anonymous   *)
(* requester has id None, which differs from every user's id               *)
EditProfile(u, n, d) ==
    /\ IF UserByName(n) = {}
       THEN /\ last' = Resp("profile_edit", u, n, d, NOT_FOUND)
            /\ UNCHANGED profiles
       ELSE \E t \in UserByName(n) :
              IF u # t
              THEN /\ last' = Resp("profile_edit", u, n, d, FORBIDDEN)
                   /\ UNCHANGED profiles
              ELSE IF ValidProfile(d)
              THEN /\ profiles' = [profiles EXCEPT ![t] = d]
                   /\ last' = Resp("profile_edit", u, n, d, OK)
              ELSE /\ last' = Resp("profile_edit", u, n, d, BAD_REQUEST)
                   /\ UNCHANGED profiles
    /\ UNCHANGED <<posts, nextPost, comments, nextComment, votes, rels, directs,
                   nextDirect, run, inflight>>

(* DirectListView.get *)
DirectList(u) ==
    /\ IF u = Anon
       THEN last' = Resp("direct_list", u, 0, 0, UNAUTHORIZED)
       ELSE last' = [Resp("direct_list", u, 0, 0, OK) EXCEPT !.data =
                       {[received_messages |-> {d \in DOMAIN directs : directs[d].to_user = u},
                         sent_messages |-> {d \in DOMAIN directs : directs[d].from_user = u}]}]
    /\ UNCHANGED <<posts, nextPost, comments, nextComment, votes, rels, directs,
                   nextDirect, run, inflight, profiles>>

----------------------------------------------------------------------------
(* Feeds (home/views.py) *)

(* field__contains: the term occurs in the text, case-sensitively *)
Contains(text, term) ==
    \E i \in 0..(Len(text) - Len(term)) : SubSeq(text, i + 1, i + Len(term)) = term

(* request.GET.get("search"): absent or empty counts as no search *)
NoSearch == <<>>
SearchTerms == {NoSearch, <<"o">>, <<"H">>, <<"1">>}

PostsMatching(ps, term) == {p \in ps : Contains(posts[p].body, term)}
UsersMatching(us, term) == {t \in us : Contains(UsernameOf[t], term)}

(* ExploreView.get *)
Explore(u, term) ==
    /\ last' = [Resp("explore", u, term, 0, OK) EXCEPT !.data =
                  IF term # NoSearch
                  THEN {[posts |-> PostsMatching(DOMAIN posts, term),
                         users |-> UsersMatching(Users, term)]}
                  ELSE {[posts |-> DOMAIN posts, users |-> Users]}]
    /\ UNCHANGED <<posts, nextPost, comments, nextComment, votes, rels, directs,
                   nextDirect, run, inflight, profiles>>

(* Relation.objects.filter(from_user=request.user).values("to_user") *)
Followed(u) == {r[2] : r \in {x \in DOMAIN rels : x[1] = u}}
(* Poste.objects.filter(user__in=temp) *)
PostsOfFollowed(u) == {p \in DOMAIN posts : posts[p].user \in Followed(u)}

(* HomeView.get: `users` is a queryset of Relation rows, and               *)
(* users.filter(username__contains=...) names a field Relation does not    *)
(* have: filter() raises FieldError, nothing catches it, the response is a *)
(* 500                                                                     *)
Home(u, term) ==
    /\ IF u = Anon
       THEN last' = Resp("home", u, term, 0, UNAUTHORIZED)
       ELSE IF term # NoSearch
       THEN last' = Resp("home", u, term, 0, SERVER_ERROR)
       ELSE last' = [Resp("home", u, term, 0, OK) EXCEPT !.data =
                       {[posts |-> PostsOfFollowed(u), users |-> Followed(u)]}]
    /\ UNCHANGED <<posts, nextPost, comments, nextComment, votes, rels, directs,
                   nextDirect, run, inflight, profiles>>

----------------------------------------------------------------------------
(* Follow and toggle-like as the two queries they are: the existence       *)
(* check, then the write.  No transaction spans them (settings.py sets no  *)
(* ATOMIC_REQUESTS), so another request's queries may run in between.      *)
(* The response of a request in a slot is kept in the slot.                *)

Free(i) == inflight[i].pc \in {"idle", "done"}

Slot(op, u, a, pc, st) ==
    [op |-> op, user |-> u, a |-> a, pc |-> pc, status |-> st, raced |-> FALSE]

(* History: slot i has just found no edge and goes on to create one.  A    *)
(* slot whose request for the same edge is between its check and its       *)
(* create has raced with it, and it with that slot.                        *)
Checked(i, op, u, a) ==
    LET rivals == {j \in Slots \ {i} :
                     /\ inflight[j].pc = "create" /\ inflight[j].op = op
                     /\ inflight[j].user = u /\ inflight[j].a = a}
    IN [j \in Slots |->
          IF j = i THEN [Slot(op, u, a, "create", 0) EXCEPT !.raced = rivals # {}]
          ELSE IF j \in rivals THEN [inflight[j] EXCEPT !.raced = TRUE]
          ELSE inflight[j]]

(* Follow.post up to and with the exists() query *)
FollowBegin(i, u, t) ==
    /\ Free(i)
    /\ IF u = Anon
       THEN /\ inflight' = [inflight EXCEPT ![i] = Slot("follow", u, t, "done", UNAUTHORIZED)]
       ELSE IF t \notin Users
       THEN /\ inflight' = [inflight EXCEPT ![i] = Slot("follow", u, t, "done", NOT_FOUND)]
       ELSE IF RelationExists(u, t)
       THEN /\ inflight' = [inflight EXCEPT ![i] = Slot("follow", u, t, "done", FORBIDDEN)]
       ELSE /\ inflight' = Checked(i, "follow", u, t)
    /\ UNCHANGED <<posts, nextPost, comments, nextComment, votes, rels, directs,
                   nextDirect, run, last, profiles>>

(* Relation.objects.create under a unique (from_user, to_user) constraint *)
FollowEndUnique(i) ==
    /\ inflight[i].op = "follow" /\ inflight[i].pc = "create"
    /\ LET u == inflight[i].user
           t == inflight[i].a
           st == IF RelationExists(u, t) THEN SERVER_ERROR ELSE CREATED
       IN /\ rels' = CreateRowUnique(rels, <<u, t>>)
          /\ inflight' = [inflight EXCEPT ![i].pc = "done", ![i].status = st]
    /\ UNCHANGED <<posts, nextPost, comments, nextComment, votes, directs,
                   nextDirect, run, last, profiles>>

(* Follow.post from Relation.objects.create on *)
FollowEnd(i) ==
    /\ inflight[i].op = "follow" /\ inflight[i].pc = "create"
    /\ LET u == inflight[i].user
           t == inflight[i].a
       IN /\ rels' = CreateRow(rels, <<u, t>>)
          /\ inflight' = [inflight EXCEPT ![i].pc = "done", ![i].status = CREATED]
    /\ UNCHANGED <<posts, nextPost, comments, nextComment, votes, directs,
                   nextDirect, run, last, profiles>>

(* PostLikeView.post up to and with the exists() query *)
LikeBegin(i, u, p) ==
    /\ Free(i)
    /\ IF u = Anon
       THEN /\ inflight' = [inflight EXCEPT ![i] = Slot("like", u, p, "done", UNAUTHORIZED)]
       ELSE IF p \notin DOMAIN posts
       THEN /\ inflight' = [inflight EXCEPT ![i] = Slot("like", u, p, "done", NOT_FOUND)]
       ELSE IF LikeExists(u, p)
       THEN /\ inflight' = [inflight EXCEPT ![i] = Slot("like", u, p, "delete", 0)]
       ELSE /\ inflight' = Checked(i, "like", u, p)
    /\ UNCHANGED <<posts, nextPost, comments, nextComment, votes, rels, directs,
                   nextDirect, run, last, profiles>>

(* PostLikeView.post from like.delete() or Vote.objects.create on *)
LikeEnd(i) ==
    /\ inflight[i].op = "like" /\ inflight[i].pc \in {"delete", "create"}
    /\ LET u == inflight[i].user
           p == inflight[i].a
           st == IF inflight[i].pc = "delete" THEN OK ELSE CREATED
       IN /\ votes' = IF inflight[i].pc = "delete"
                      THEN DeleteRows(votes, {<<p, u>>})
                      ELSE CreateRow(votes, <<p, u>>)
          /\ inflight' = [inflight EXCEPT ![i].pc = "done", ![i].status = st]
    /\ UNCHANGED <<posts, nextPost, comments, nextComment, rels, directs,
                   nextDirect, run, last, profiles>>

----------------------------------------------------------------------------
(* Specifications.  The handlers of one group touch tables no other group  *)
(* reads, so each group is checked as a specification of its own, with     *)
(* the requests drawn from small sets.                                     *)

(* Follows and likes, every handler atomic *)
GraphRequesters == {Anon, 1, 2}
FollowTargets == {1, 3, NoUser}

GraphNext ==
    \/ \E u \in GraphRequesters, t \in FollowTargets : Follow(u, t)
    \/ \E u \in GraphRequesters, t \in FollowTargets : UnFollow(u, t)
    \/ \E u \in GraphRequesters, p \in LikedPostIds : PostLike(u, p)
    \/ \E u \in {Anon, 1} : nextPost <= MaxLikedPosts /\ PostCreate(u, Plain)
    \/ \E u \in GraphRequesters, p \in LikedPostIds : PostDelete(u, p)

GraphSpec == Init /\ [][GraphNext]_vars

(* Posts and their slugs *)
Payloads == Bodies \cup {Absent, Blank}
Slugs == {SlugOf(b) : b \in Bodies} \cup {HelloWorld}

PostNext ==
    \/ \E u \in {Anon, 1, 2}, b \in Payloads :
          nextPost <= MaxSlugPosts /\ PostCreate(u, b)
    \/ \E u \in {Anon, 1, 2}, p \in SlugPostIds, b \in Payloads : PostUpdate(u, p, b)
    \/ \E u \in {1, 2}, p \in SlugPostIds : PostDelete(u, p)
    \/ \E u \in {Anon, 1}, p \in SlugPostIds, sl \in Slugs : PostDetail(u, p, sl)
    \/ \E u \in {1, 2}, p \in SlugPostIds, sl \in Slugs, b \in {Plain, Absent} :
          nextComment <= MaxSlugComments /\ CommentCreate(u, p, sl, b)
    \/ \E u \in {1, 2}, c \in SlugCommentIds : CommentDelete(u, c)

PostSpec == Init /\ [][PostNext]_vars

(* Comments and replies: user 1 posts and comments, user 2 replies, on     *)
(* posts that all have the body "ok"                                       *)
ThreadNext ==
    \/ PostCreate(1, Plain)
    \/ \E p \in PostIds : PostDelete(1, p)
    \/ \E p \in PostIds : CommentCreate(1, p, SlugOf(Plain), Plain)
    \/ \E p \in PostIds, c \in CommentIds, b \in {Plain, Absent} :
          CommentReply(2, p, c, b)
    \/ \E u \in {1, 2}, c \in CommentIds : CommentDelete(u, c)

ThreadSpec == Init /\ [][ThreadNext]_vars

(* Direct messages *)
DirectNext ==
    \/ \E u \in Requesters, n \in Usernames, d \in Messages : SendDirect(u, n, d)
    \/ \E u \in Requesters, d \in DirectIds : DirectView(u, d)

DirectSpec == Init /\ [][DirectNext]_vars

(* Follow and toggle-like requests whose queries interleave *)
RaceRequesters == {Anon, 1}

RaceNext ==
    \/ \E i \in Slots, u \in RaceRequesters, t \in {3, NoUser} : FollowBegin(i, u, t)
    \/ \E i \in Slots : FollowEnd(i)
    \/ \E i \in Slots, u \in RaceRequesters, p \in PostIds : LikeBegin(i, u, p)
    \/ \E i \in Slots : LikeEnd(i)
    \/ PostCreate(1, Plain)

RaceSpec == Init /\ [][RaceNext]_vars

(* Every handler that looks up what its request names, for one signed-in   *)
(* user, with names that resolve and names that do not                     *)
LookupNames == {UsernameOf[1], NoName}

LookupNext ==
    \/ nextPost <= MaxSlugPosts /\ PostCreate(1, Plain)
    \/ \E n \in LookupNames : ListPosts(1, n)
    \/ \E n \in LookupNames : UserProfile(1, n)
    \/ \E n \in LookupNames : UserRelations(1, n)
    \/ \E n \in LookupNames, d \in {[bio |-> Plain], [bio |-> TooLong]} :
          EditProfile(1, n, d)
    \/ \E p \in SlugPostIds : PostDetail(1, p, Plain)
    \/ \E p \in SlugPostIds, b \in {Plain, Blank} : PostUpdate(1, p, b)
    \/ \E p \in SlugPostIds : PostDelete(1, p)
    \/ \E p \in SlugPostIds, b \in {Plain, Absent} :
          nextComment <= MaxSlugComments /\ CommentCreate(1, p, Plain, b)
    \/ \E p \in SlugPostIds, c \in SlugCommentIds, b \in {Plain, Absent} :
          nextComment <= MaxSlugComments /\ CommentReply(1, p, c, b)
    \/ \E c \in SlugCommentIds : CommentDelete(1, c)
    \/ \E p \in SlugPostIds : PostLike(1, p)
    \/ \E t \in {2, NoUser} : Follow(1, t)
    \/ \E t \in {2, NoUser} : UnFollow(1, t)
    \/ \E n \in LookupNames, b \in {Plain, Absent} : SendDirect(1, n, Message(b))
    \/ \E d \in DirectIds : DirectView(1, d)

LookupSpec == Init /\ [][LookupNext]_vars

(* Feeds: users 1 and 2 post, user 1 follows and reads *)
MaxFeedPosts == 2

FeedNext ==
    \/ \E u \in {1, 2}, b \in {Plain, HelloWorld} :
          nextPost <= MaxFeedPosts /\ PostCreate(u, b)
    \/ \E t \in {1, 2} : Follow(1, t)
    \/ \E t \in {1, 2} : UnFollow(1, t)
    \/ \E u \in {Anon, 1}, term \in SearchTerms : Home(u, term)
    \/ \E u \in {Anon, 1}, term \in SearchTerms : Explore(u, term)

FeedSpec == Init /\ [][FeedNext]_vars

(* Every endpoint asked by nobody; user 1 signs in to create the post, the *)
(* comment and the message the anonymous requests name                     *)
GateRequesters == {Anon, 1}

GateNext ==
    \/ \E u \in GateRequesters : CurrentUser(u)
    \/ \E u \in GateRequesters : Home(u, NoSearch)
    \/ \E u \in GateRequesters : nextPost <= MaxSlugPosts /\ PostCreate(u, Plain)
    \/ \E p \in SlugPostIds : PostUpdate(Anon, p, HelloWorld)
    \/ \E p \in SlugPostIds : PostDelete(Anon, p)
    \/ \E u \in GateRequesters, p \in SlugPostIds :
          nextComment <= MaxSlugComments /\ CommentCreate(u, p, Plain, Plain)
    \/ \E p \in SlugPostIds, c \in SlugCommentIds : CommentReply(Anon, p, c, Plain)
    \/ \E c \in SlugCommentIds : CommentDelete(Anon, c)
    \/ \E p \in SlugPostIds : PostLike(Anon, p)
    \/ \E t \in {2, NoUser} : Follow(Anon, t)
    \/ \E t \in {2, NoUser} : UnFollow(Anon, t)
    \/ \E u \in GateRequesters, n \in LookupNames : EditProfile(u, n, [bio |-> Plain])
    \/ \E u \in GateRequesters : DirectList(u)
    \/ \E u \in GateRequesters, d \in DirectIds : DirectView(u, d)
    \/ \E u \in GateRequesters, n \in LookupNames : SendDirect(u, n, Message(Plain))

GateSpec == Init /\ [][GateNext]_vars

(* Profiles: users 1 and 2 and an anonymous requester edit and read *)
ProfileRequesters == {Anon, 1, 2}
ProfileNames == {UsernameOf[1], UsernameOf[2], NoName}

ProfileNext ==
    \/ \E u \in ProfileRequesters, n \in ProfileNames, d \in ProfileData :
          EditProfile(u, n, d)
    \/ \E u \in ProfileRequesters, n \in ProfileNames : UserProfile(u, n)
    \/ \E u \in ProfileRequesters, n \in ProfileNames : UserRelations(u, n)
    \/ \E u \in ProfileRequesters : CurrentUser(u)
    \/ \E u \in ProfileRequesters, t \in {1, 2} : Follow(u, t)

ProfileSpec == Init /\ [][ProfileNext]_vars

(* Requests that fail, next to the ones that succeed: user 1 writes, the   *)
(* anonymous requester and user 2 ask for what they may not have, and      *)
(* everybody names things that are not there or sends invalid data         *)
FailRequesters == {Anon, 1, 2}
Strangers == {Anon, 2}

FailNext ==
    \/ \E u \in {Anon, 1}, b \in {Plain, Blank} :
          nextPost <= MaxSlugPosts /\ PostCreate(u, b)
    \/ \E u \in FailRequesters, p \in SlugPostIds, b \in {HelloWorld, Blank} :
          PostUpdate(u, p, b)
    \/ \E u \in Strangers, p \in SlugPostIds : PostDelete(u, p)
    \/ \E u \in {Anon, 1}, p \in SlugPostIds, sl \in {Plain, HelloWorld} :
          nextComment <= MaxSlugComments /\ CommentCreate(u, p, sl, Plain)
    \/ \E p \in SlugPostIds : CommentCreate(1, p, Plain, Absent)
    \/ \E u \in {Anon, 1}, p \in SlugPostIds, c \in SlugCommentIds :
          CommentReply(u, p, c, Absent)
    \/ \E u \in Strangers, c \in SlugCommentIds : CommentDelete(u, c)
    \/ \E p \in SlugPostIds : PostLike(Anon, p)
    \/ PostLike(1, MaxSlugPosts + 1)
    \/ \E u \in {Anon, 1}, t \in {2, NoUser} : Follow(u, t)
    \/ \E u \in {Anon, 1}, t \in {2, NoUser} : UnFollow(u, t)
    \/ \E u \in FailRequesters, n \in LookupNames,
          d \in {[bio |-> Plain], [bio |-> TooLong]} : EditProfile(u, n, d)
    \/ \E u \in {Anon, 1}, n \in {UsernameOf[3], NoName}, b \in {Plain, Absent} :
          SendDirect(u, n, Message(b))
    \/ \E u \in FailRequesters, d \in DirectIds : DirectView(u, d)
    \/ \E n \in LookupNames : UserProfile(Anon, n)
    \/ \E n \in LookupNames : UserRelations(Anon, n)
    \/ \E u \in {Anon, 1} : Home(u, NoSearch)
    \/ \E u \in {Anon, 1} : DirectList(u)
    \/ \E u \in {Anon, 1} : CurrentUser(u)

FailSpec == Init /\ [][FailNext]_vars

(* Every handler, each run to completion *)
Next ==
    \/ GraphNext \/ PostNext \/ ThreadNext \/ DirectNext
    \/ LookupNext \/ FeedNext \/ GateNext \/ ProfileNext \/ FailNext

Spec == Init /\ [][Next]_vars

----------------------------------------------------------------------------
(* Properties *)

RunPair == <<run.post, run.user>>

(* C1: after N consecutive toggle-like calls by u on p, starting with no   *)
(* vote by u on p, the number of votes by u on p is N mod 2, and the       *)
(* responses alternate 201 (liked), 200 (unliked).  GraphSpec.             *)
C1_ToggleParity ==
    run # NoRun =>
        /\ Count(votes, RunPair) = Len(run.resps) % 2
        /\ \A k \in 1..Len(run.resps) :
              run.resps[k] = IF k % 2 = 1 THEN CREATED ELSE OK

C1_Witness ==
    /\ Len(run.resps) >= 3
    /\ Count(votes, RunPair) = 1

(* C2: Follow by an authenticated user on an existing target answers 403   *)
(* and creates nothing when the relation exists, and otherwise answers 201 *)
(* and creates exactly that one relation; Unfollow answers 403 and deletes *)
(* nothing when no relation exists, and otherwise answers 200 (and the     *)
(* relation is gone).  GraphSpec.                                          *)
C2_FollowGuards ==
    [][LET u == last'.user
           t == last'.a
       IN (last'.op \in {"follow", "unfollow"} /\ u # Anon /\ t \in Users) =>
            IF last'.op = "follow"
            THEN IF Count(rels, <<u, t>>) > 0
                 THEN last'.status = FORBIDDEN /\ rels' = rels
                 ELSE last'.status = CREATED /\ rels' = rels (+) SetToBag({<<u, t>>})
            ELSE IF Count(rels, <<u, t>>) = 0
                 THEN last'.status = FORBIDDEN /\ rels' = rels
                 ELSE /\ last'.status = OK
                      /\ Count(rels', <<u, t>>) = 0
                      /\ \A r \in DOMAIN rels \ {<<u, t>>} : Count(rels', r) = Count(rels, r)
      ]_vars

C2_Witness ==
    /\ last.op = "follow" /\ last.status = FORBIDDEN
    /\ Count(rels, <<last.user, last.a>>) = 1

C4_ReplyPostIsParentPost ==
    \A c \in DOMAIN comments :
        (comments[c].is_reply /\ comments[c].reply \in DOMAIN comments) =>
            comments[c].post = comments[comments[c].reply].post

(* C5: a stored comment has is_reply set exactly if reply is set, and      *)
(* every set reply is a stored comment.  ThreadSpec.                       *)
C5_ReplyFlag ==
    \A c \in DOMAIN comments :
        /\ comments[c].is_reply <=> comments[c].reply # 0
        /\ comments[c].reply # 0 => comments[c].reply \in DOMAIN comments

C5_Witness ==
    /\ last.op = "comment_delete" /\ last.status = OK
    /\ \E c \in DOMAIN comments : comments[c].is_reply
    /\ \E c \in DOMAIN comments : ~comments[c].is_reply

(* C6: Update post, Delete post and Delete comment by an authenticated     *)
(* user who is not the author of the existing target answer 403 and leave  *)
(* posts and comments as they were.  PostSpec.                             *)
C6_OwnerOnly ==
    [][LET u == last'.user
           x == last'.a
           foreign == CASE last'.op \in {"post_update", "post_delete"} ->
                             x \in DOMAIN posts /\ posts[x].user # u
                        [] last'.op = "comment_delete" ->
                             x \in DOMAIN comments /\ comments[x].user # u
                        [] OTHER -> FALSE
       IN (u # Anon /\ foreign) =>
             /\ last'.status = FORBIDDEN
             /\ posts' = posts
             /\ comments' = comments
      ]_vars

C6_Witness ==
    /\ last.op = "post_update" /\ last.status = FORBIDDEN
    /\ posts[last.a].body # last.b
    /\ last.b \in Bodies

(* C7: with every handler run to completion before the next starts, no     *)
(* (post, user) pair has two votes and no (from_user, to_user) pair has    *)
(* two relations.  GraphSpec.                                              *)
C7_EdgesUnique ==
    /\ \A r \in DOMAIN votes : Count(votes, r) <= 1
    /\ \A r \in DOMAIN rels : Count(rels, r) <= 1

C7_Witness ==
    /\ BagCardinality(votes) >= 2
    /\ BagCardinality(rels) >= 2
    /\ last.status = FORBIDDEN

(* C8: two requests for the same edge whose existence checks both ran      *)
(* before either create both answer 201 and leave two rows for the edge.   *)
(* RaceSpec.                                                               *)
C8_RaceDuplicates ==
    \A i, j \in Slots :
        (/\ i # j
         /\ inflight[i].raced /\ inflight[j].raced
         /\ inflight[i].pc = "done" /\ inflight[j].pc = "done") =>
            /\ inflight[i].status = CREATED /\ inflight[j].status = CREATED
            /\ Count(IF inflight[i].op = "follow" THEN rels ELSE votes,
                     IF inflight[i].op = "follow"
                     THEN <<inflight[i].user, inflight[i].a>>
                     ELSE <<inflight[i].a, inflight[i].user>>) = 2

C8_Witness ==
    /\ \E r \in DOMAIN rels : Count(rels, r) = 2
    /\ \E r \in DOMAIN votes : Count(votes, r) = 2
    /\ \A i \in Slots : inflight[i].raced /\ inflight[i].status = CREATED

(* C9: Get post detail and Create comment answer 404 unless the id and the *)
(* slug are those of one stored post, and Create comment then stores       *)
(* nothing; with both matching, Get post detail answers 200 and Create     *)
(* comment 201 or 400.  PostSpec.                                          *)
C9_SlugIsKey ==
    [][LET match == last'.a \in DOMAIN posts /\ posts[last'.a].slug = last'.b
       IN /\ last'.op = "post_detail" =>
                last'.status = IF match THEN OK ELSE NOT_FOUND
          /\ (last'.op = "comment_create" /\ last'.user # Anon) =>
                IF match
                THEN last'.status \in {CREATED, BAD_REQUEST}
                ELSE last'.status = NOT_FOUND /\ comments' = comments
      ]_vars

C9_Witness ==
    /\ last.op = "comment_create" /\ last.status = NOT_FOUND
    /\ last.a \in DOMAIN posts
    /\ posts[last.a].slug # last.b

(* C10: Get one message answers 200 with the message exactly if the        *)
(* requester is its sender or its recipient; any other requester gets 403  *)
(* and no message, and an absent id gets 404.  DirectSpec.                 *)
C10_MessageConfidential ==
    last.op = "direct_get" =>
        IF last.a \notin DOMAIN directs
        THEN last.status = NOT_FOUND /\ last.data = {}
        ELSE IF last.user \in {directs[last.a].from_user, directs[last.a].to_user}
        THEN last.status = OK /\ last.data = {directs[last.a]}
        ELSE last.status = FORBIDDEN /\ last.data = {}

C10_Witness ==
    /\ last.op = "direct_get" /\ last.status = FORBIDDEN
    /\ last.user \in Users
    /\ directs[last.a].from_user # directs[last.a].to_user

(* C11, as claimed: every handler that looks up a user, post, comment or   *)
(* message named by the request answers 404 when there is none, whatever   *)
(* else the request carries (the requester is signed in).  LookupSpec.     *)
C11_NotFoundFirst ==
    [][LET op == last'.op
           absent ==
             CASE op \in {"user_posts", "user_profile", "user_relations",
                          "profile_edit", "direct_send"} -> UserByName(last'.a) = {}
               [] op \in {"post_update", "post_delete", "like"} ->
                     last'.a \notin DOMAIN posts
               [] op \in {"post_detail", "comment_create"} ->
                     ~PostByIdSlug(last'.a, last'.b)
               [] op = "comment_reply" ->
                     last'.a \notin DOMAIN posts \/ last'.b \notin DOMAIN comments
               [] op = "comment_delete" -> last'.a \notin DOMAIN comments
               [] op \in {"follow", "unfollow"} -> last'.a \notin Users
               [] op = "direct_get" -> last'.a \notin DOMAIN directs
               [] OTHER -> FALSE
       IN (last'.user # Anon /\ absent) => last'.status = NOT_FOUND
      ]_vars

(* C12, as claimed: every endpoint that requires authentication, and the   *)
(* current-user endpoint, answers an anonymous requester with 401.         *)
(* GateSpec.                                                               *)
GatedOps ==
    {"home", "post_create", "post_update", "post_delete", "comment_create",
     "comment_reply", "comment_delete", "like", "follow", "unfollow",
     "profile_edit", "direct_list", "direct_get", "direct_send", "me"}

C12_AnonymousGets401 ==
    (last.user = Anon /\ last.op \in GatedOps) => last.status = UNAUTHORIZED

(* C14, as claimed: the home feed of a signed-in user answers 200 with     *)
(* exactly the posts of the authors the user follows, and with a search    *)
(* term, 200 with those of them whose body contains the term.  FeedSpec.   *)
C14_HomeFeed ==
    (last.op = "home" /\ last.user # Anon) =>
        /\ last.status = OK
        /\ \E d \in last.data :
              d.posts = IF last.a # NoSearch
                        THEN PostsMatching(PostsOfFollowed(last.user), last.a)
                        ELSE PostsOfFollowed(last.user)

(* C13, as claimed: Send message by a signed-in user u to username n       *)
(* answers 404 and creates nothing when no user is named n; when it        *)
(* succeeds it creates exactly one Direct, from u to the user named n,     *)
(* whatever sender and recipient the payload names.  DirectSpec.           *)
C13_SendMessage ==
    [][(last'.op = "direct_send" /\ last'.user # Anon) =>
          IF UserByName(last'.a) = {}
          THEN last'.status = NOT_FOUND /\ directs' = directs
          ELSE last'.status = CREATED =>
                 \E id \in DOMAIN directs' \ DOMAIN directs :
                    /\ DOMAIN directs' = DOMAIN directs \cup {id}
                    /\ \A x \in DOMAIN directs : directs'[x] = directs[x]
                    /\ directs'[id].from_user = last'.user
                    /\ directs'[id].to_user \in UserByName(last'.a)
                    /\ directs'[id].body = last'.b.body
      ]_vars

(* C15: Edit profile of an existing user by any requester who is not that  *)
(* user (an anonymous one included) answers 403 and leaves every profile   *)
(* as it was; by the user, valid data answers 200 and replaces the profile *)
(* fields, and invalid data answers 400 and changes nothing; a profile     *)
(* changes in no other way.  ProfileSpec.                                  *)
C15_EditSelfOnly ==
    [][/\ (last'.op = "profile_edit" /\ UserByName(last'.a) # {}) =>
            \A t \in UserByName(last'.a) :
               IF last'.user # t
               THEN last'.status = FORBIDDEN /\ profiles' = profiles
               ELSE IF ValidProfile(last'.b)
               THEN /\ last'.status = OK
                    /\ profiles' = [profiles EXCEPT ![t] = last'.b]
               ELSE last'.status = BAD_REQUEST /\ profiles' = profiles
       /\ \A t \in Users :
            profiles'[t] # profiles[t] =>
               /\ last'.op = "profile_edit" /\ last'.status = OK
               /\ last'.user = t /\ last'.a = UsernameOf[t]
               /\ ValidProfile(last'.b)
      ]_vars

C15_Witness ==
    /\ last.op = "profile_edit" /\ last.status = FORBIDDEN
    /\ last.user \in Users
    /\ \E t \in UserByName(last.a) :
          /\ profiles[t].bio = Plain
          /\ last.b.bio = HelloWorld
    /\ profiles[last.user].bio = HelloWorld

(* C16: Follow by a signed-in user on that same user, with no such         *)
(* relation stored, answers 201 and stores the relation from the user to   *)
(* the user; the number of such relations goes down only by that user's    *)
(* successful Unfollow of that same user.  GraphSpec.                      *)
C16_SelfFollow ==
    [][LET u == last'.user
       IN /\ (/\ last'.op = "follow" /\ u # Anon /\ last'.a = u
              /\ Count(rels, <<u, u>>) = 0) =>
                 /\ last'.status = CREATED
                 /\ rels' = rels (+) SetToBag({<<u, u>>})
          /\ \A t \in Users :
               Count(rels', <<t, t>>) < Count(rels, <<t, t>>) =>
                  /\ last'.op = "unfollow" /\ last'.status = OK
                  /\ u = t /\ last'.a = t
      ]_vars

C16_Witness ==
    /\ Count(rels, <<1, 1>>) = 1
    /\ last.op = "unfollow" /\ last.status = OK
    /\ last.user = 1 /\ last.a = 3

(* C17: a request answered with 400, 401, 403 or 404 leaves every table as *)
(* it was.  FailSpec.                                                      *)
C17_FailedChangesNothing ==
    [][last'.status \in {BAD_REQUEST, UNAUTHORIZED, FORBIDDEN, NOT_FOUND} =>
          store' = store]_vars

C17_Witness ==
    /\ last.op = "comment_reply" /\ last.status = BAD_REQUEST
    /\ last.user = 1
    /\ BagCardinality(rels) = 1
    /\ DOMAIN directs # {}
    /\ profiles[1].bio = Plain

====
